---------------------------- MODULE Spec2Model ----------------------------
(***************************************************************************)
(* Kopexa Resource Names (package krn).                                    *)
(*                                                                         *)
(* A Go string is modelled as a sequence of one-character strings, so      *)
(* that "abc" is <<"a", "b", "c">> and "" is <<>>.  The library is a set   *)
(* of pure functions over strings and identifier values plus one mutable   *)
(* accumulator, the Builder.  Pure functions are operators; each           *)
(* specification draws the inputs of the functions it exercises from a     *)
(* bounded set in its initial predicate and applies them in its actions.   *)
(***************************************************************************)
EXTENDS Integers, Sequences, FiniteSets, TLC

VARIABLES
    pc,         \* position of the driving program
    text,       \* Parse: the input text
    parsed,     \* Parse: the result [krn, err]
    rendered,   \* KRN.String() of the parsed value
    id,         \* resource-id validator / sanitizer input
    valid,      \* IsValidResourceID(id)
    safe,       \* SafeResourceID(id)
    resafe,     \* SafeResourceID(SafeResourceID(id))
    ver,        \* version validator input
    strictOK,   \* IsValidVersion(ver), src/krn.go generation
    permOK,     \* IsValidVersion(ver), service-as-subdomain generation
    withV,      \* result of KRN.WithVersion(ver)
    b,          \* the Builder
    built,      \* result of the last Builder.Build()
    reparsed,   \* Parse(built.krn.String())
    nCalls,     \* number of Builder calls made so far
    calls,      \* the Builder calls made so far, in call order
    svc,        \* service validator input
    svcOK,      \* IsValidService(svc)
    arrays,     \* the backing arrays of the segment slices allocated so far
    objs,       \* the KRN objects allocated so far
    slices,     \* the slices the caller holds from KRN.Segments()
    last        \* the last operation: receiver, arguments, result

vars == <<pc, text, parsed, rendered, id, valid, safe, resafe,
          ver, strictOK, permOK, withV, b, built, reparsed, nCalls, calls,
          svc, svcOK, arrays, objs, slices, last>>

-----------------------------------------------------------------------------
(* Characters and strings *)

Lower == {"a","b","c","d","e","f","g","h","i","j","k","l","m",
          "n","o","p","q","r","s","t","u","v","w","x","y","z"}
Upper == {"A","B","C","D","E","F","G","H","I","J","K","L","M",
          "N","O","P","Q","R","S","T","U","V","W","X","Y","Z"}
Digit == {"0","1","2","3","4","5","6","7","8","9"}

\* [a-zA-Z0-9]
AlnumClass == Lower \cup Upper \cup Digit
\* [a-zA-Z0-9._-]
IDClass == AlnumClass \cup {".", "_", "-"}
\* [a-z0-9-] and [a-z0-9]
ServiceClass == Lower \cup Digit \cup {"-"}
ServiceEndClass == Lower \cup Digit

\* const Domain = "kopexa.com"
Domain == <<"k","o","p","e","x","a",".","c","o","m">>

\* s[from:] with a 1-based first index
Drop(s, n) == SubSeq(s, n + 1, Len(s))

\* strings.HasPrefix / strings.HasSuffix / strings.TrimSuffix
HasPrefix(s, p) == Len(s) >= Len(p) /\ SubSeq(s, 1, Len(p)) = p
HasSuffix(s, p) == Len(s) >= Len(p) /\ SubSeq(s, Len(s) - Len(p) + 1, Len(s)) = p
TrimSuffix(s, p) == IF HasSuffix(s, p) THEN SubSeq(s, 1, Len(s) - Len(p)) ELSE s

\* strings.LastIndex(s, c) for a one-character c: the 0-based index of the
\* last occurrence, -1 when there is none.
RECURSIVE LastIndexFrom(_, _, _)
LastIndexFrom(s, c, i) ==
    IF i = 0 THEN -1
    ELSE IF s[i] = c THEN i - 1
    ELSE LastIndexFrom(s, c, i - 1)
LastIndex(s, c) == LastIndexFrom(s, c, Len(s))

\* strings.Index(s, c): 0-based index of the first occurrence, -1 if none.
RECURSIVE IndexFrom(_, _, _)
IndexFrom(s, c, i) ==
    IF i > Len(s) THEN -1
    ELSE IF s[i] = c THEN i - 1
    ELSE IndexFrom(s, c, i + 1)
Index(s, c) == IndexFrom(s, c, 1)

\* strings.Split(s, sep) for a one-character sep; Split("", sep) is <<"">>.
RECURSIVE Split(_, _)
Split(s, sep) ==
    LET i == Index(s, sep)
    IN  IF i = -1 THEN <<s>>
        ELSE <<SubSeq(s, 1, i)>> \o Split(Drop(s, i + 1), sep)

\* strings.Join(parts, sep)
RECURSIVE Join(_, _)
Join(parts, sep) ==
    IF parts = <<>> THEN <<>>
    ELSE IF Len(parts) = 1 THEN parts[1]
    ELSE parts[1] \o sep \o Join(Tail(parts), sep)

\* The least element of a non-empty set of integers
Min(S) == CHOOSE x \in S : \A y \in S : x <= y

\* strings.TrimLeft / TrimRight / Trim with a cutset of characters: the
\* string from its first (up to its last) character outside the cutset.
TrimLeft(s, cutset) ==
    LET keep == {i \in 1..Len(s) : s[i] \notin cutset}
    IN  IF keep = {} THEN <<>> ELSE SubSeq(s, Min(keep), Len(s))
TrimRight(s, cutset) ==
    LET back == {Len(s) + 1 - i : i \in {j \in 1..Len(s) : s[j] \notin cutset}}
    IN  IF back = {} THEN <<>> ELSE SubSeq(s, 1, Len(s) + 1 - Min(back))
Trim(s, cutset) == TrimRight(TrimLeft(s, cutset), cutset)

-----------------------------------------------------------------------------
(* Validation patterns and predicates *)

\* ^[a-zA-Z0-9]([a-zA-Z0-9._-]{0,198}[a-zA-Z0-9])?$|^[a-zA-Z0-9]$
resourceIDPattern(s) ==
    \/ /\ Len(s) >= 1
       /\ s[1] \in AlnumClass
       /\ \/ Len(s) = 1
          \/ /\ Len(s) >= 2
             /\ Len(s) - 2 <= 198
             /\ \A i \in 2..(Len(s) - 1) : s[i] \in IDClass
             /\ s[Len(s)] \in AlnumClass
    \/ /\ Len(s) = 1
       /\ s[1] \in AlnumClass

IsValidResourceID_OffByOne(s) ==
    IF s = <<>> \/ Len(s) >= 200 THEN FALSE ELSE resourceIDPattern(s)

IsValidResourceID(s) ==
    IF s = <<>> \/ Len(s) > 200 THEN FALSE ELSE resourceIDPattern(s)

\* ^[a-zA-Z0-9]([a-zA-Z0-9._-]*[a-zA-Z0-9])?$
versionPattern(v) ==
    /\ Len(v) >= 1
    /\ v[1] \in AlnumClass
    /\ \/ Len(v) = 1
       \/ /\ Len(v) >= 2
          /\ \A i \in 2..(Len(v) - 1) : v[i] \in IDClass
          /\ v[Len(v)] \in AlnumClass

IsValidVersion_NoBareV(v) ==
    IF v = <<>> THEN FALSE ELSE versionPattern(v)

IsValidVersion(v) ==
    IF v = <<>> \/ v = <<"v">> THEN FALSE ELSE versionPattern(v)

\* \d+ starting at position i: the position after the longest run of digits
RECURSIVE SkipDigits(_, _)
SkipDigits(v, i) ==
    IF i <= Len(v) /\ v[i] \in Digit THEN SkipDigits(v, i + 1) ELSE i

\* (\.\d+){0,n}$ starting at position i
RECURSIVE MatchDotGroups(_, _, _)
MatchDotGroups(v, i, n) ==
    IF i = Len(v) + 1 THEN TRUE
    ELSE IF n = 0 THEN FALSE
    ELSE /\ v[i] = "."
         /\ SkipDigits(v, i + 1) > i + 1
         /\ MatchDotGroups(v, SkipDigits(v, i + 1), n - 1)

\* ^(v\d+(\.\d+){0,2}|latest|draft)$
versionPatternStrict(v) ==
    \/ /\ Len(v) >= 2
       /\ v[1] = "v"
       /\ SkipDigits(v, 2) > 2
       /\ MatchDotGroups(v, SkipDigits(v, 2), 2)
    \/ v = <<"l","a","t","e","s","t">>
    \/ v = <<"d","r","a","f","t">>

IsValidVersionStrict_ThreeDots(v) ==
    \/ /\ Len(v) >= 2
       /\ v[1] = "v"
       /\ SkipDigits(v, 2) > 2
       /\ MatchDotGroups(v, SkipDigits(v, 2), 3)
    \/ v = <<"l","a","t","e","s","t">>
    \/ v = <<"d","r","a","f","t">>

\* IsValidVersion of src/krn.go
IsValidVersionStrict(v) == versionPatternStrict(v)

\* ^[a-z][a-z0-9-]{0,61}[a-z0-9]$|^[a-z]$
servicePattern_Wide(s) ==
    \/ /\ Len(s) >= 2 /\ s[1] \in Lower /\ Len(s) - 2 <= 62
       /\ \A i \in 2..(Len(s) - 1) : s[i] \in ServiceClass
       /\ s[Len(s)] \in ServiceEndClass
    \/ /\ Len(s) = 1 /\ s[1] \in Lower

servicePattern(s) ==
    \/ /\ Len(s) >= 2
       /\ s[1] \in Lower
       /\ Len(s) - 2 <= 61
       /\ \A i \in 2..(Len(s) - 1) : s[i] \in ServiceClass
       /\ s[Len(s)] \in ServiceEndClass
    \/ /\ Len(s) = 1
       /\ s[1] \in Lower

IsValidService(s) ==
    IF s = <<>> THEN FALSE ELSE servicePattern(s)

-----------------------------------------------------------------------------
(* Sanitizer *)

SafeResourceID_NoRetrim(s) ==
    IF s = <<>> THEN <<>>
    ELSE LET result == [i \in 1..Len(s) |->
                          IF s[i] \in IDClass THEN s[i] ELSE "-"]
             res == Trim(result, {"-", "."})
         IN  IF Len(res) > 200 THEN SubSeq(res, 1, 200) ELSE res

SafeResourceID(s) ==
    IF s = <<>> THEN <<>>
    ELSE LET result == [i \in 1..Len(s) |->
                          IF s[i] \in IDClass THEN s[i] ELSE "-"]
             res == Trim(result, {"-", "."})
         IN  IF Len(res) > 200
             THEN TrimRight(SubSeq(res, 1, 200), {"-", "."})
             ELSE res

-----------------------------------------------------------------------------
(* Identifier values *)

\* type Segment struct { Collection, ResourceID string }
Segment(collection, resourceID) ==
    [Collection |-> collection, ResourceID |-> resourceID]

\* type KRN struct { service; segments; version }
KRN(service, segments, version) ==
    [service |-> service, segments |-> segments, version |-> version]

\* The nil *KRN
NilKRN == [nil |-> TRUE]

\* A (value, error) result; err is "nil" on success
Result(krn, err) == [krn |-> krn, err |-> err]

\* No call made yet
NoResult == [krn |-> NilKRN, err |-> "none"]

\* No operation has been applied yet
NoOp == [op |-> "none"]

\* func (k *KRN) String() string
RECURSIVE WriteSegments(_)
WriteSegments(segments) ==
    IF segments = <<>> THEN <<>>
    ELSE <<"/">> \o Head(segments).Collection \o <<"/">> \o Head(segments).ResourceID
         \o WriteSegments(Tail(segments))

String_NoService(k) ==
    <<"/", "/">> \o Domain \o WriteSegments(k.segments)
    \o (IF k.version # <<>> THEN <<"@">> \o k.version ELSE <<>>)

String(k) ==
    <<"/", "/">>
    \o (IF k.service # <<>> THEN k.service \o <<".">> ELSE <<>>)
    \o Domain
    \o WriteSegments(k.segments)
    \o (IF k.version # <<>> THEN <<"@">> \o k.version ELSE <<>>)

\* parts = append(parts, seg.Collection, seg.ResourceID), for each segment
RECURSIVE PathParts(_)
PathParts(segments) ==
    IF segments = <<>> THEN <<>>
    ELSE <<Head(segments).Collection, Head(segments).ResourceID>>
         \o PathParts(Tail(segments))
Path_LeadingSlash(k) == WriteSegments(k.segments)

\* func (k *KRN) Path() string
Path(k) == Join(PathParts(k.segments), <<"/">>)

Equals_PathOnly(k, other) ==
    IF other = NilKRN THEN FALSE ELSE Path(k) = Path(other)

\* func (k *KRN) Equals(other *KRN) bool
Equals(k, other) ==
    IF other = NilKRN THEN FALSE ELSE String(k) = String(other)

\* func (k *KRN) RelativeResourceName() string
RelativeResourceName(k) == Path(k)

\* func (k *KRN) HasVersion() bool
HasVersion(k) == k.version # <<>>

\* func (k *KRN) HasService() bool
HasService(k) == k.service # <<>>

\* func (k *KRN) FullDomain() string
FullDomain(k) ==
    IF k.service # <<>> THEN k.service \o <<".">> \o Domain ELSE Domain

\* The result of a lookup: (resource id, error)
Found(resourceID, err) == [id |-> resourceID, err |-> err]

RECURSIVE ScanLast(_, _)
ScanLast(segments, collection) ==
    IF segments = <<>> THEN Found(<<>>, "ErrResourceNotFound")
    ELSE IF segments[Len(segments)].Collection = collection
    THEN Found(segments[Len(segments)].ResourceID, "nil")
    ELSE ScanLast(SubSeq(segments, 1, Len(segments) - 1), collection)

ResourceID_Last(k, collection) == ScanLast(k.segments, collection)

\* for _, seg := range segments { if seg.Collection == collection ... }
RECURSIVE Scan(_, _)
Scan(segments, collection) ==
    IF segments = <<>> THEN Found(<<>>, "ErrResourceNotFound")
    ELSE IF Head(segments).Collection = collection
    THEN Found(Head(segments).ResourceID, "nil")
    ELSE Scan(Tail(segments), collection)

\* func (k *KRN) ResourceID(collection string) (string, error)
ResourceID(k, collection) == Scan(k.segments, collection)

\* func (k *KRN) HasResource(collection string) bool
HasResource(k, collection) == Scan(k.segments, collection).err = "nil"

-----------------------------------------------------------------------------
(* Parser *)

RECURSIVE ParsePairs_IDFirst(_, _, _)
ParsePairs_IDFirst(resourcePath, i, segments) ==
    IF ~(i < Len(resourcePath)) THEN [segments |-> segments, err |-> "nil"]
    ELSE LET collection == resourcePath[i + 1]
             resourceID == resourcePath[i + 2]
         IN  IF ~IsValidResourceID(resourceID)
             THEN [segments |-> <<>>, err |-> "ErrInvalidResourceID"]
             ELSE IF collection = <<>>
             THEN [segments |-> <<>>, err |-> "ErrInvalidKRN"]
             ELSE ParsePairs_IDFirst(resourcePath, i + 2,
                             Append(segments, Segment(collection, resourceID)))

\* The loop of Parse over resourcePath, from 0-based index i, with the
\* segments collected so far; returns on the first failing pair.
RECURSIVE ParsePairs(_, _, _)
ParsePairs(resourcePath, i, segments) ==
    IF ~(i < Len(resourcePath)) THEN [segments |-> segments, err |-> "nil"]
    ELSE LET collection == resourcePath[i + 1]
             resourceID == resourcePath[i + 2]
         IN  IF collection = <<>>
             THEN [segments |-> <<>>, err |-> "ErrInvalidKRN"]
             ELSE IF ~IsValidResourceID(resourceID)
             THEN [segments |-> <<>>, err |-> "ErrInvalidResourceID"]
             ELSE ParsePairs(resourcePath, i + 2,
                             Append(segments, Segment(collection, resourceID)))

ParseBody_DomainFirst(s, version) ==
    LET parts == Split(s, "/")
        domain == parts[1]
        dotDomain == <<".">> \o Domain
        service == IF domain = Domain THEN <<>> ELSE TrimSuffix(domain, dotDomain)
        resourcePath == Tail(parts)
        pairs == ParsePairs(resourcePath, 0, <<>>)
    IN  IF domain # Domain /\ ~HasSuffix(domain, dotDomain)
        THEN Result(NilKRN, "ErrInvalidDomain")
        ELSE IF domain # Domain /\ ~IsValidService(service)
        THEN Result(NilKRN, "ErrInvalidDomain")
        ELSE IF Len(parts) < 3 THEN Result(NilKRN, "ErrInvalidKRN")
        ELSE IF Len(resourcePath) % 2 # 0 THEN Result(NilKRN, "ErrInvalidKRN")
        ELSE IF pairs.err # "nil" THEN Result(NilKRN, pairs.err)
        ELSE Result(KRN(service, pairs.segments, version), "nil")

ParseBody_NoService(s, version) ==
    LET parts == Split(s, "/")
        domain == parts[1]
        dotDomain == <<".">> \o Domain
        service == IF domain = Domain THEN <<>> ELSE TrimSuffix(domain, dotDomain)
        resourcePath == Tail(parts)
        pairs == ParsePairs(resourcePath, 0, <<>>)
    IN  IF Len(parts) < 3 THEN Result(NilKRN, "ErrInvalidKRN")
        ELSE IF domain # Domain /\ ~HasSuffix(domain, dotDomain)
        THEN Result(NilKRN, "ErrInvalidDomain")
        ELSE IF domain # Domain /\ ~IsValidService(service)
        THEN Result(NilKRN, "ErrInvalidDomain")
        ELSE IF Len(resourcePath) % 2 # 0 THEN Result(NilKRN, "ErrInvalidKRN")
        ELSE IF pairs.err # "nil" THEN Result(NilKRN, pairs.err)
        ELSE Result(KRN(<<>>, pairs.segments, version), "nil")

\* The part of Parse after the version has been split off: s is the text
\* without prefix and version.
ParseBody(s, version) ==
    LET parts == Split(s, "/")
        domain == parts[1]
        dotDomain == <<".">> \o Domain
        service == IF domain = Domain THEN <<>> ELSE TrimSuffix(domain, dotDomain)
        resourcePath == Tail(parts)
        pairs == ParsePairs(resourcePath, 0, <<>>)
    IN  IF Len(parts) < 3 THEN Result(NilKRN, "ErrInvalidKRN")
        ELSE IF domain # Domain /\ ~HasSuffix(domain, dotDomain)
        THEN Result(NilKRN, "ErrInvalidDomain")
        ELSE IF domain # Domain /\ ~IsValidService(service)
        THEN Result(NilKRN, "ErrInvalidDomain")
        ELSE IF Len(resourcePath) % 2 # 0 THEN Result(NilKRN, "ErrInvalidKRN")
        ELSE IF pairs.err # "nil" THEN Result(NilKRN, pairs.err)
        ELSE Result(KRN(service, pairs.segments, version), "nil")

Parse_FirstAt(s) ==
    IF s = <<>> THEN Result(NilKRN, "ErrEmptyKRN")
    ELSE IF ~HasPrefix(s, <<"/", "/">>) THEN Result(NilKRN, "ErrInvalidKRN")
    ELSE LET rest == Drop(s, 2)
             idx == Index(rest, "@")
         IN  IF idx # -1
             THEN IF ~IsValidVersion(Drop(rest, idx + 1))
                  THEN Result(NilKRN, "ErrInvalidVersion")
                  ELSE ParseBody(SubSeq(rest, 1, idx), Drop(rest, idx + 1))
             ELSE ParseBody(rest, <<>>)

\* func Parse(s string) (*KRN, error)
Parse(s) ==
    IF s = <<>> THEN Result(NilKRN, "ErrEmptyKRN")
    ELSE IF ~HasPrefix(s, <<"/", "/">>) THEN Result(NilKRN, "ErrInvalidKRN")
    ELSE LET rest == Drop(s, 2)
             idx == LastIndex(rest, "@")
         IN  IF idx # -1
             THEN IF ~IsValidVersion(Drop(rest, idx + 1))
                  THEN Result(NilKRN, "ErrInvalidVersion")
                  ELSE ParseBody(SubSeq(rest, 1, idx), Drop(rest, idx + 1))
             ELSE ParseBody(rest, <<>>)

-----------------------------------------------------------------------------
(* Transformations *)

WithVersion_DropsService(k, version) ==
    IF ~IsValidVersion(version) THEN Result(NilKRN, "ErrInvalidVersion")
    ELSE Result(KRN(<<>>, k.segments, version), "nil")

\* func (k *KRN) WithVersion(version string) (*KRN, error)
WithVersion(k, version) ==
    IF ~IsValidVersion(version) THEN Result(NilKRN, "ErrInvalidVersion")
    ELSE Result(KRN(k.service, k.segments, version), "nil")

\* func (k *KRN) EqualsString(other string) bool
EqualsString(k, other) ==
    LET r == Parse(other)
    IN  IF r.err # "nil" THEN FALSE ELSE Equals(k, r.krn)

\* func (k *KRN) Service() string
Service(k) == k.service

\* func (k *KRN) Version() string
Version(k) == k.version

\* func (k *KRN) Depth() int
Depth(k) == Len(k.segments)

Basename_NoGuard(k) ==
    IF Len(k.segments) = 0 THEN <<"p", "a", "n", "i", "c">>
    ELSE k.segments[Len(k.segments)].ResourceID

\* func (k *KRN) Basename() string
Basename(k) ==
    IF Len(k.segments) = 0 THEN <<>>
    ELSE k.segments[Len(k.segments)].ResourceID

\* func (k *KRN) BasenameCollection() string
BasenameCollection(k) ==
    IF Len(k.segments) = 0 THEN <<>>
    ELSE k.segments[Len(k.segments)].Collection

Parent_KeepsVersion(k) ==
    IF Len(k.segments) <= 1 THEN NilKRN
    ELSE KRN(k.service, SubSeq(k.segments, 1, Len(k.segments) - 1), k.version)

\* func (k *KRN) Parent() *KRN
Parent(k) ==
    IF Len(k.segments) <= 1 THEN NilKRN
    ELSE KRN(k.service, SubSeq(k.segments, 1, Len(k.segments) - 1), <<>>)

WithoutVersion_Keeps(k) == KRN(k.service, k.segments, k.version)

\* func (k *KRN) WithoutVersion() *KRN
WithoutVersion(k) == KRN(k.service, k.segments, <<>>)

WithService_Unchecked(k, service) ==
    Result(KRN(service, k.segments, k.version), "nil")

\* func (k *KRN) WithService(service string) (*KRN, error)
WithService(k, service) ==
    IF ~IsValidService(service) THEN Result(NilKRN, "ErrInvalidDomain")
    ELSE Result(KRN(service, k.segments, k.version), "nil")

WithoutService_DropsVersion(k) == KRN(<<>>, k.segments, <<>>)

\* func (k *KRN) WithoutService() *KRN
WithoutService(k) == KRN(<<>>, k.segments, k.version)

NewChild_IDFirst(parent, collection, resourceID) ==
    IF parent = NilKRN THEN Result(NilKRN, "ErrInvalidKRN")
    ELSE IF ~IsValidResourceID(resourceID)
    THEN Result(NilKRN, "ErrInvalidResourceID")
    ELSE IF collection = <<>> THEN Result(NilKRN, "ErrInvalidKRN")
    ELSE Result(KRN(parent.service,
                    Append(parent.segments, Segment(collection, resourceID)),
                    <<>>), "nil")

NewChild_NoService(parent, collection, resourceID) ==
    IF parent = NilKRN THEN Result(NilKRN, "ErrInvalidKRN")
    ELSE IF collection = <<>> THEN Result(NilKRN, "ErrInvalidKRN")
    ELSE IF ~IsValidResourceID(resourceID)
    THEN Result(NilKRN, "ErrInvalidResourceID")
    ELSE Result(KRN(<<>>,
                    Append(parent.segments, Segment(collection, resourceID)),
                    <<>>), "nil")

\* func NewChild(parent *KRN, collection, resourceID string) (*KRN, error)
NewChild(parent, collection, resourceID) ==
    IF parent = NilKRN THEN Result(NilKRN, "ErrInvalidKRN")
    ELSE IF collection = <<>> THEN Result(NilKRN, "ErrInvalidKRN")
    ELSE IF ~IsValidResourceID(resourceID)
    THEN Result(NilKRN, "ErrInvalidResourceID")
    ELSE Result(KRN(parent.service,
                    Append(parent.segments, Segment(collection, resourceID)),
                    <<>>), "nil")

-----------------------------------------------------------------------------
(* Builder *)

\* type Builder struct { service; segments; version; err }
Builder(service, segments, version, err) ==
    [service |-> service, segments |-> segments, version |-> version, err |-> err]

\* func New() *Builder
New == Builder(<<>>, <<>>, <<>>, "nil")

\* func (b *Builder) Service(service string) *Builder
BuilderService(bd, service) ==
    IF bd.err # "nil" THEN bd
    ELSE IF ~IsValidService(service) THEN [bd EXCEPT !.err = "ErrInvalidDomain"]
    ELSE [bd EXCEPT !.service = service]

BuilderResource_NoShortCircuit(bd, collection, resourceID) ==
    IF collection = <<>> THEN [bd EXCEPT !.err = "ErrInvalidKRN"]
    ELSE IF ~IsValidResourceID(resourceID)
    THEN [bd EXCEPT !.err = "ErrInvalidResourceID"]
    ELSE [bd EXCEPT !.segments =
              Append(bd.segments, Segment(collection, resourceID))]

BuilderResource_Prepend(bd, collection, resourceID) ==
    IF bd.err # "nil" THEN bd
    ELSE IF collection = <<>> THEN [bd EXCEPT !.err = "ErrInvalidKRN"]
    ELSE IF ~IsValidResourceID(resourceID)
    THEN [bd EXCEPT !.err = "ErrInvalidResourceID"]
    ELSE [bd EXCEPT !.segments =
              <<Segment(collection, resourceID)>> \o bd.segments]

\* func (b *Builder) Resource(collection, resourceID string) *Builder
BuilderResource(bd, collection, resourceID) ==
    IF bd.err # "nil" THEN bd
    ELSE IF collection = <<>> THEN [bd EXCEPT !.err = "ErrInvalidKRN"]
    ELSE IF ~IsValidResourceID(resourceID)
    THEN [bd EXCEPT !.err = "ErrInvalidResourceID"]
    ELSE [bd EXCEPT !.segments = Append(@, Segment(collection, resourceID))]

BuilderVersion_Unchecked(bd, version) ==
    IF bd.err # "nil" THEN bd ELSE [bd EXCEPT !.version = version]

\* func (b *Builder) Version(version string) *Builder
BuilderVersion(bd, version) ==
    IF bd.err # "nil" THEN bd
    ELSE IF ~IsValidVersion(version) THEN [bd EXCEPT !.err = "ErrInvalidVersion"]
    ELSE [bd EXCEPT !.version = version]

BuilderBuild_NoResourceCheck(bd) ==
    IF bd.err # "nil" THEN Result(NilKRN, bd.err)
    ELSE Result(KRN(bd.service, bd.segments, bd.version), "nil")

\* func (b *Builder) Build() (*KRN, error)
BuilderBuild(bd) ==
    IF bd.err # "nil" THEN Result(NilKRN, bd.err)
    ELSE IF Len(bd.segments) = 0 THEN Result(NilKRN, "ErrInvalidKRN")
    ELSE Result(KRN(bd.service, bd.segments, bd.version), "nil")

-----------------------------------------------------------------------------
(* Inputs *)

\* Largest number of "/"-separated path tokens in a Parse input
MaxPathTokens == 4

Prefixes == {<<"/", "/">>, <<"/">>}

DomainTokens ==
    { Domain,
      <<"a", ".">> \o Domain,
      <<"A", ".">> \o Domain,
      <<".">> \o Domain,
      <<"g">> }

PathTokens == {<<>>, <<"a">>, <<"-">>, <<"_">>, <<"a", "@", "b">>}

VersionParts == {<<>>, <<"@">>, <<"@", "v">>, <<"@", "v", "1">>, <<"@", "-">>}

\* "/" tok1 "/" tok2 ...
RECURSIVE SlashJoin(_)
SlashJoin(toks) ==
    IF toks = <<>> THEN <<>>
    ELSE <<"/">> \o Head(toks) \o SlashJoin(Tail(toks))

TokenLists == UNION {[1..n -> PathTokens] : n \in 0..MaxPathTokens}

ParseInputs ==
    {<<>>} \cup
    { p \o d \o SlashJoin(toks) \o vp :
        p \in Prefixes, d \in DomainTokens, toks \in TokenLists, vp \in VersionParts }

-----------------------------------------------------------------------------
(* Specification SpecParse: Parse a text, then render the value *)

InitParse ==
    /\ pc = "start"
    /\ text \in ParseInputs
    /\ parsed = NoResult
    /\ rendered = <<>>
    /\ id = <<>> /\ valid = FALSE /\ safe = <<>> /\ resafe = <<>>
    /\ ver = <<>> /\ strictOK = FALSE /\ permOK = FALSE /\ withV = NoResult
    /\ b = New /\ built = NoResult /\ reparsed = NoResult /\ nCalls = 0
    /\ calls = <<>> /\ svc = <<>> /\ svcOK = FALSE
    /\ arrays = <<>> /\ objs = <<>> /\ slices = <<>> /\ last = NoOp

DoParse ==
    /\ pc = "start"
    /\ parsed' = Parse(text)
    /\ pc' = "parsed"
    /\ UNCHANGED <<calls, svc, svcOK, arrays, objs, slices, last>>
    /\ UNCHANGED <<text, rendered, id, valid, safe, resafe, ver, strictOK,
                   permOK, withV, b, built, reparsed, nCalls>>

DoString ==
    /\ pc = "parsed"
    /\ parsed.err = "nil"
    /\ rendered' = String(parsed.krn)
    /\ pc' = "rendered"
    /\ UNCHANGED <<calls, svc, svcOK, arrays, objs, slices, last>>
    /\ UNCHANGED <<text, parsed, id, valid, safe, resafe, ver, strictOK,
                   permOK, withV, b, built, reparsed, nCalls>>

NextParse == DoParse \/ DoString

SpecParse == InitParse /\ [][NextParse]_vars

-----------------------------------------------------------------------------
(* Claims on SpecParse *)

Chars(s) == {s[i] : i \in 1..Len(s)}

\* C1: round trip.  Whenever Parse accepts a text, String() of the value it
\* returns is exactly that text.
C1_RoundTrip ==
    pc = "rendered" => rendered = text

\* C1 witness: a text with a service label, two segments and a version has
\* been parsed and rendered.
C1_Witness ==
    /\ pc = "rendered"
    /\ parsed.krn.service # <<>>
    /\ parsed.krn.version # <<>>
    /\ Len(parsed.krn.segments) = 2

\* The text between the "//" prefix and the version separator (the last "@")
BodyOf(t) ==
    LET rest == Drop(t, 2)
        at == LastIndex(rest, "@")
    IN  IF at = -1 THEN rest ELSE SubSeq(rest, 1, at)

\* The text after the last "@" of a text that has one
VersionOf(t) ==
    LET rest == Drop(t, 2) IN Drop(rest, LastIndex(rest, "@") + 1)

\* The "/"-separated tokens of the path part: those after the domain token
PathTokensOf(t) == Tail(Split(BodyOf(t), "/"))

DomainTokenOf(t) == Head(Split(BodyOf(t), "/"))

\* The text carries the prefix, a valid domain token and no or a valid version
WellFramed(t) ==
    /\ HasPrefix(t, <<"/", "/">>)
    /\ "@" \in Chars(Drop(t, 2)) => IsValidVersion(VersionOf(t))
    /\ \/ DomainTokenOf(t) = Domain
       \/ \E n \in 1..Len(DomainTokenOf(t)) :
            /\ DomainTokenOf(t) = SubSeq(DomainTokenOf(t), 1, n) \o <<".">> \o Domain
            /\ IsValidService(SubSeq(DomainTokenOf(t), 1, n))

HasEmptyPathToken(t) ==
    \E i \in 1..Len(PathTokensOf(t)) : PathTokensOf(t)[i] = <<>>

\* Pair i of the path (1-based) has an empty collection or an invalid resource id
BadPair(toks, i) ==
    toks[2 * i - 1] = <<>> \/ ~IsValidResourceID(toks[2 * i])

\* The root-most bad pair has a non-empty collection
FirstBadPairHasCollection(toks) ==
    \E i \in 1..(Len(toks) \div 2) :
        /\ BadPair(toks, i)
        /\ \A j \in 1..(i - 1) : ~BadPair(toks, j)
        /\ toks[2 * i - 1] # <<>>

\* C4 as stated: a text with an empty path token is rejected as
\* ErrInvalidKRN (read with prefix, version and domain valid, so that no
\* earlier step of Parse decides the kind).
C4_EmptyTokenAlwaysMalformed ==
    (pc # "start" /\ WellFramed(text) /\ HasEmptyPathToken(text))
        => parsed.err = "ErrInvalidKRN"

\* C4 amended: a well-framed text with an empty path token is always
\* rejected; the kind is ErrInvalidResourceID when the number of path tokens
\* is even and the first offending pair has a non-empty collection (the
\* empty token is its resource id, or its resource id is otherwise invalid),
\* and ErrInvalidKRN in every other case.
C4_EmptyTokenKind ==
    (pc # "start" /\ WellFramed(text) /\ HasEmptyPathToken(text))
        => /\ parsed.krn = NilKRN
           /\ parsed.err \in {"ErrInvalidKRN", "ErrInvalidResourceID"}
           /\ parsed.err = "ErrInvalidResourceID"
                <=> /\ Len(PathTokensOf(text)) % 2 = 0
                    /\ FirstBadPairHasCollection(PathTokensOf(text))

\* C4 witness: an empty token in a resource-id position after a valid first
\* pair, rejected as ErrInvalidResourceID.
C4_Witness ==
    /\ pc = "parsed"
    /\ WellFramed(text)
    /\ Len(PathTokensOf(text)) = 4
    /\ ~BadPair(PathTokensOf(text), 1)
    /\ PathTokensOf(text)[3] # <<>>
    /\ PathTokensOf(text)[4] = <<>>
    /\ parsed.err = "ErrInvalidResourceID"

\* A collection of the grammar: any non-empty string when free; otherwise a
\* non-empty string without "/" that has an "@" only in a versioned text.
CollectionOK(c, free, versioned) ==
    /\ c # <<>>
    /\ free \/ ("/" \notin Chars(c) /\ (versioned \/ "@" \notin Chars(c)))

\* ( "/" collection "/" resource-id )+
RECURSIVE GrammarPath(_, _, _)
GrammarPath(p, free, versioned) ==
    /\ Len(p) >= 4
    /\ p[1] = "/"
    /\ \E j \in 3..(Len(p) - 1) :
        /\ p[j] = "/"
        /\ CollectionOK(SubSeq(p, 2, j - 1), free, versioned)
        /\ \E k \in (j + 1)..Len(p) :
            /\ IsValidResourceID(SubSeq(p, j + 1, k))
            /\ k = Len(p) \/ GrammarPath(Drop(p, k), free, versioned)

\* [ service-label "." ] root-domain
GrammarDomain(d) ==
    \/ d = Domain
    \/ \E n \in 1..Len(d) :
        /\ d = SubSeq(d, 1, n) \o <<".">> \o Domain
        /\ IsValidService(SubSeq(d, 1, n))

GrammarBody(r, free, versioned) ==
    \E n \in 1..Len(r) :
        /\ GrammarDomain(SubSeq(r, 1, n))
        /\ GrammarPath(Drop(r, n), free, versioned)

\* "//" [service-label "."] root-domain ("/" collection "/" resource-id)+ ["@" version]
InGrammar(t, free) ==
    /\ HasPrefix(t, <<"/", "/">>)
    /\ \/ GrammarBody(Drop(t, 2), free, FALSE)
       \/ \E i \in 3..Len(t) :
            /\ t[i] = "@"
            /\ IsValidVersion(Drop(t, i))
            /\ GrammarBody(SubSeq(t, 3, i - 1), free, TRUE)

\* C5 as stated: Parse accepts exactly the texts of the grammar in which a
\* collection is any non-empty string.
C5_AcceptsGrammarAnyCollection ==
    pc # "start" => (parsed.err = "nil" <=> InGrammar(text, TRUE))

\* C5 amended: Parse accepts exactly the texts of the grammar in which a
\* collection is a non-empty string without "/" that contains "@" only when
\* the text ends in "@" version.
C5_AcceptsGrammar ==
    pc # "start" => (parsed.err = "nil" <=> InGrammar(text, FALSE))

\* C5 witness: an accepted text with a service label, a collection holding
\* an "@", and a version.
C5_Witness ==
    /\ pc = "parsed"
    /\ parsed.err = "nil"
    /\ parsed.krn.service # <<>>
    /\ parsed.krn.version # <<>>
    /\ \E i \in 1..Len(parsed.krn.segments) :
         "@" \in Chars(parsed.krn.segments[i].Collection)

-----------------------------------------------------------------------------
(* Specification SpecResourceID: validate and sanitize a resource id *)

\* strings.Repeat(c, n) for a one-character c
Repeat(c, n) == [i \in 1..n |-> c]

AffixChars == {"a", "-", "_", ".", " "}

\* Heads and tails of the inputs: every string of at most two AffixChars
Affixes == UNION {[1..n -> AffixChars] : n \in 0..2}

FillChars == {"a", "-"}

\* Lengths of the middle run: short ids, and ids around the 200 limit
FillCounts == {0, 1} \cup (196..201)

ResourceIDInputs ==
    { h \o Repeat(c, n) \o tl :
        h \in Affixes, c \in FillChars, n \in FillCounts, tl \in Affixes }

InitResourceID ==
    /\ pc = "start"
    /\ id \in ResourceIDInputs
    /\ valid = FALSE /\ safe = <<>> /\ resafe = <<>>
    /\ text = <<>> /\ parsed = NoResult /\ rendered = <<>>
    /\ ver = <<>> /\ strictOK = FALSE /\ permOK = FALSE /\ withV = NoResult
    /\ b = New /\ built = NoResult /\ reparsed = NoResult /\ nCalls = 0
    /\ calls = <<>> /\ svc = <<>> /\ svcOK = FALSE
    /\ arrays = <<>> /\ objs = <<>> /\ slices = <<>> /\ last = NoOp

DoValidate ==
    /\ pc = "start"
    /\ valid' = IsValidResourceID(id)
    /\ pc' = "validated"
    /\ UNCHANGED <<calls, svc, svcOK, arrays, objs, slices, last>>
    /\ UNCHANGED <<text, parsed, rendered, id, safe, resafe, ver, strictOK,
                   permOK, withV, b, built, reparsed, nCalls>>

DoSanitize ==
    /\ pc = "validated"
    /\ safe' = SafeResourceID(id)
    /\ pc' = "sanitized"
    /\ UNCHANGED <<calls, svc, svcOK, arrays, objs, slices, last>>
    /\ UNCHANGED <<text, parsed, rendered, id, valid, resafe, ver, strictOK,
                   permOK, withV, b, built, reparsed, nCalls>>

DoResanitize ==
    /\ pc = "sanitized"
    /\ resafe' = SafeResourceID(safe)
    /\ pc' = "resanitized"
    /\ UNCHANGED <<calls, svc, svcOK, arrays, objs, slices, last>>
    /\ UNCHANGED <<text, parsed, rendered, id, valid, safe, ver, strictOK,
                   permOK, withV, b, built, reparsed, nCalls>>

NextResourceID == DoValidate \/ DoSanitize \/ DoResanitize

SpecResourceID == InitResourceID /\ [][NextResourceID]_vars

\* C3: the sanitizer's output is empty or a valid resource id.
C3_SafeIsValidOrEmpty ==
    pc \in {"sanitized", "resanitized"}
        => (safe = <<>> \/ IsValidResourceID(safe))

\* C6: sanitizing a sanitized string changes nothing.
C6_Idempotent ==
    pc = "resanitized" => resafe = safe

\* C6 witness: an input longer than 200 characters whose 200th character
\* is "-" or ".", so that truncation exposed it and it was trimmed again.
C6_Witness ==
    /\ pc = "resanitized"
    /\ Len(id) > 200
    /\ id[1] \in AlnumClass
    /\ id[200] \in {"-", "."}
    /\ id[199] \in AlnumClass
    /\ Len(safe) = 199

\* C7: IsValidResourceID(s) holds exactly when s has 1 to 200 characters,
\* all letters, digits, "-", "_" or ".", the first and the last a letter or
\* a digit.
C7_ResourceIDGrammar ==
    pc # "start"
        => (valid <=> /\ 1 <= Len(id) /\ Len(id) <= 200
                      /\ Chars(id) \subseteq
                           (Lower \cup Upper \cup Digit \cup {"-", "_", "."})
                      /\ id[1] \in (Lower \cup Upper \cup Digit)
                      /\ id[Len(id)] \in (Lower \cup Upper \cup Digit))

\* C7 witness: a 200-character id has been accepted.
C7_Witness ==
    pc # "start" /\ Len(id) = 200 /\ valid

-----------------------------------------------------------------------------
(* Specification SpecVersion: the two version policies *)

\* Longest version built from "v", a digit and "."
MaxVersionLen == 8

DottedVersions == UNION {[1..n -> {"v", "1", "."}] : n \in 0..MaxVersionLen}

ShortChars == {"a", "v", "2", "-", "_", ".", "@", "/", " "}

ShortStrings == UNION {[1..n -> ShortChars] : n \in 0..3}

\* Inputs of TestIsValidVersion and ExampleIsValidVersion not covered above
NamedVersions ==
    { <<"l","a","t","e","s","t">>, <<"d","r","a","f","t">>,
      <<"r","e","l","e","a","s","e">>, <<"v","e","r","s","i","o","n","1">>,
      <<"l","a","t","e","s","t","1">>, <<"D","r","a","f","t">>,
      <<"2","0","2","2">>, <<"1",".","0">>, <<"v","1","0",".","2","0",".","3","0">>,
      <<"-","i","n","v","a","l","i","d">>, <<"2","0","2","2","-","0","1","-","1","5">> }

VersionInputs == DottedVersions \cup ShortStrings \cup NamedVersions

InitVersion ==
    /\ pc = "start"
    /\ ver \in VersionInputs
    /\ strictOK = FALSE /\ permOK = FALSE /\ withV = NoResult
    /\ text = <<>> /\ parsed = NoResult /\ rendered = <<>>
    /\ id = <<>> /\ valid = FALSE /\ safe = <<>> /\ resafe = <<>>
    /\ b = New /\ built = NoResult /\ reparsed = NoResult /\ nCalls = 0
    /\ calls = <<>> /\ svc = <<>> /\ svcOK = FALSE
    /\ arrays = <<>> /\ objs = <<>> /\ slices = <<>> /\ last = NoOp

DoValidateStrict ==
    /\ pc = "start"
    /\ strictOK' = IsValidVersionStrict(ver)
    /\ pc' = "strict"
    /\ UNCHANGED <<calls, svc, svcOK, arrays, objs, slices, last>>
    /\ UNCHANGED <<text, parsed, rendered, id, valid, safe, resafe, ver,
                   permOK, withV, b, built, reparsed, nCalls>>

DoValidatePermissive ==
    /\ pc = "strict"
    /\ permOK' = IsValidVersion(ver)
    /\ pc' = "done"
    /\ UNCHANGED <<calls, svc, svcOK, arrays, objs, slices, last>>
    /\ UNCHANGED <<text, parsed, rendered, id, valid, safe, resafe, ver,
                   strictOK, withV, b, built, reparsed, nCalls>>

NextVersion == DoValidateStrict \/ DoValidatePermissive

SpecVersion == InitVersion /\ [][NextVersion]_vars

C9_PermissiveVersionGrammar ==
    pc = "done"
        => (permOK <=>
              /\ ver # <<>>
              /\ ver # <<"v">>
              /\ Chars(ver) \subseteq
                   (Lower \cup Upper \cup Digit \cup {"-", "_", "."})
              /\ Head(ver) \in (Lower \cup Upper \cup Digit)
              /\ ver[Len(ver)] \in (Lower \cup Upper \cup Digit))

\* C9 witness: the bare integer tag "2022" is accepted by the permissive
\* policy and rejected by the strict one.
C9_Witness ==
    /\ pc = "done"
    /\ ver = <<"2","0","2","2">>
    /\ permOK
    /\ ~strictOK

-----------------------------------------------------------------------------
(* Specification SpecPolicy: one version at the three places that validate it *)

\* Valid identifier texts without a version
UnversionedTexts ==
    { <<"/", "/">> \o Domain \o <<"/", "a", "/", "b">>,
      <<"/", "/", "s", ".">> \o Domain \o <<"/", "a", "/", "b">>,
      <<"/", "/">> \o Domain \o <<"/", "a", "/", "b", "/", "c", "/", "d">> }

InitPolicy ==
    /\ pc = "start"
    /\ text \in UnversionedTexts
    /\ ver \in ShortStrings \cup NamedVersions
    /\ parsed = NoResult /\ reparsed = NoResult /\ withV = NoResult
    /\ b = New /\ permOK = FALSE
    /\ rendered = <<>> /\ strictOK = FALSE
    /\ id = <<>> /\ valid = FALSE /\ safe = <<>> /\ resafe = <<>>
    /\ built = NoResult /\ nCalls = 0
    /\ calls = <<>> /\ svc = <<>> /\ svcOK = FALSE
    /\ arrays = <<>> /\ objs = <<>> /\ slices = <<>> /\ last = NoOp

\* k, err := Parse(t)
DoParseBase ==
    /\ pc = "start"
    /\ parsed' = Parse(text)
    /\ pc' = "base"
    /\ UNCHANGED <<calls, svc, svcOK, arrays, objs, slices, last>>
    /\ UNCHANGED <<text, rendered, id, valid, safe, resafe, ver, strictOK,
                   permOK, withV, b, built, reparsed, nCalls>>

\* Parse(t + "@" + v)
DoParseVersioned ==
    /\ pc = "base"
    /\ reparsed' = Parse(text \o <<"@">> \o ver)
    /\ pc' = "parsed"
    /\ UNCHANGED <<calls, svc, svcOK, arrays, objs, slices, last>>
    /\ UNCHANGED <<text, parsed, rendered, id, valid, safe, resafe, ver,
                   strictOK, permOK, withV, b, built, nCalls>>

\* k.WithVersion(v)
DoWithVersion ==
    /\ pc = "parsed"
    /\ parsed.err = "nil"
    /\ withV' = WithVersion(parsed.krn, ver)
    /\ pc' = "mutated"
    /\ UNCHANGED <<calls, svc, svcOK, arrays, objs, slices, last>>
    /\ UNCHANGED <<text, parsed, rendered, id, valid, safe, resafe, ver,
                   strictOK, permOK, b, built, reparsed, nCalls>>

\* New().Version(v)
DoBuilderVersion ==
    /\ pc = "mutated"
    /\ b' = BuilderVersion(b, ver)
    /\ pc' = "built"
    /\ UNCHANGED <<calls, svc, svcOK, arrays, objs, slices, last>>
    /\ UNCHANGED <<text, parsed, rendered, id, valid, safe, resafe, ver,
                   strictOK, permOK, withV, built, reparsed, nCalls>>

\* IsValidVersion(v)
DoIsValidVersion ==
    /\ pc = "built"
    /\ permOK' = IsValidVersion(ver)
    /\ pc' = "done"
    /\ UNCHANGED <<calls, svc, svcOK, arrays, objs, slices, last>>
    /\ UNCHANGED <<text, parsed, rendered, id, valid, safe, resafe, ver,
                   strictOK, withV, b, built, reparsed, nCalls>>

NextPolicy ==
    \/ DoParseBase
    \/ DoParseVersioned
    \/ DoWithVersion
    \/ DoBuilderVersion
    \/ DoIsValidVersion

SpecPolicy == InitPolicy /\ [][NextPolicy]_vars

\* The three places agree with IsValidVersion on success
PolicyAgrees ==
    /\ reparsed.err = "nil" <=> permOK
    /\ withV.err = "nil" <=> permOK
    /\ b.err = "nil" <=> permOK

\* C10 as stated: Parse(t@v), WithVersion(v) and Builder.Version(v) succeed
\* exactly when IsValidVersion(v), and each fails as ErrInvalidVersion
\* otherwise.
C10_OnePolicyOneKind ==
    pc = "done"
        => /\ PolicyAgrees
           /\ ~permOK => /\ reparsed.err = "ErrInvalidVersion"
                         /\ withV.err = "ErrInvalidVersion"
                         /\ b.err = "ErrInvalidVersion"

\* C10 amended: the three succeed exactly when IsValidVersion(v); otherwise
\* WithVersion and Builder.Version fail as ErrInvalidVersion, and Parse fails
\* as ErrInvalidVersion unless v holds an "@" followed by a valid version.
\* In that case Parse takes that tail as the version and the rest of v as
\* part of the path, and fails as ErrInvalidKRN when the rest holds an odd
\* number of "/" and as ErrInvalidResourceID otherwise.
C10_OnePolicy ==
    pc = "done"
        => /\ PolicyAgrees
           /\ ~permOK =>
                /\ withV.err = "ErrInvalidVersion"
                /\ b.err = "ErrInvalidVersion"
                /\ withV.krn = NilKRN
                /\ reparsed.krn = NilKRN
                /\ reparsed.err =
                     IF /\ "@" \in Chars(ver)
                        /\ IsValidVersion(Drop(ver, LastIndex(ver, "@") + 1))
                     THEN IF Len(Split(SubSeq(ver, 1, LastIndex(ver, "@")), "/")) % 2 = 0
                          THEN "ErrInvalidKRN"
                          ELSE "ErrInvalidResourceID"
                     ELSE "ErrInvalidVersion"

\* C10 witness: a version holding an "@" followed by a valid version has
\* been rejected by all three, by Parse as ErrInvalidResourceID.
C10_Witness ==
    /\ pc = "done"
    /\ "@" \in Chars(ver)
    /\ reparsed.err = "ErrInvalidResourceID"
    /\ withV.err = "ErrInvalidVersion"
    /\ b.err = "ErrInvalidVersion"

-----------------------------------------------------------------------------
(* Specification SpecBuilder: Builder calls, Build, and Parse of the result *)

\* Largest number of Service, Resource and Version calls on the builder
MaxCalls == 3

ServiceInputs == {<<"s">>, <<"t">>, <<"S">>}

CollectionInputs ==
    { <<"c">>, <<>>, <<"a", "/", "b">>, <<"a", "@", "b">>,
      <<"a", "/", "b", "/", "c">> }

ResourceInputs == {<<"r">>, <<"-">>}

BuilderVersionInputs == {<<"v", "1">>, <<"v", "2">>, <<"v">>}

InitBuilder ==
    /\ pc = "start"
    /\ b = New
    /\ built = NoResult
    /\ reparsed = NoResult
    /\ nCalls = 0
    /\ text = <<>> /\ parsed = NoResult /\ rendered = <<>>
    /\ id = <<>> /\ valid = FALSE /\ safe = <<>> /\ resafe = <<>>
    /\ ver = <<>> /\ strictOK = FALSE /\ permOK = FALSE /\ withV = NoResult
    /\ calls = <<>> /\ svc = <<>> /\ svcOK = FALSE
    /\ arrays = <<>> /\ objs = <<>> /\ slices = <<>> /\ last = NoOp

CallService(service) ==
    /\ nCalls < MaxCalls
    /\ b' = BuilderService(b, service)
    /\ nCalls' = nCalls + 1
    /\ calls' = Append(calls, [op |-> "Service", args |-> <<service>>])
    /\ pc' = "calling"
    /\ UNCHANGED <<svc, svcOK, arrays, objs, slices, last>>
    /\ UNCHANGED <<text, parsed, rendered, id, valid, safe, resafe, ver,
                   strictOK, permOK, withV, built, reparsed>>

CallResource(collection, resourceID) ==
    /\ nCalls < MaxCalls
    /\ b' = BuilderResource(b, collection, resourceID)
    /\ nCalls' = nCalls + 1
    /\ calls' = Append(calls, [op |-> "Resource",
                                args |-> <<collection, resourceID>>])
    /\ pc' = "calling"
    /\ UNCHANGED <<svc, svcOK, arrays, objs, slices, last>>
    /\ UNCHANGED <<text, parsed, rendered, id, valid, safe, resafe, ver,
                   strictOK, permOK, withV, built, reparsed>>

CallVersion(version) ==
    /\ nCalls < MaxCalls
    /\ b' = BuilderVersion(b, version)
    /\ nCalls' = nCalls + 1
    /\ calls' = Append(calls, [op |-> "Version", args |-> <<version>>])
    /\ pc' = "calling"
    /\ UNCHANGED <<svc, svcOK, arrays, objs, slices, last>>
    /\ UNCHANGED <<text, parsed, rendered, id, valid, safe, resafe, ver,
                   strictOK, permOK, withV, built, reparsed>>

\* k, err := b.Build()
CallBuild ==
    /\ built' = BuilderBuild(b)
    /\ reparsed' = NoResult
    /\ pc' = "built"
    /\ last' = [op |-> "Build", again |-> pc = "built", prev |-> built,
                pre |-> b]
    /\ UNCHANGED <<calls, svc, svcOK, arrays, objs, slices>>
    /\ UNCHANGED <<text, parsed, rendered, id, valid, safe, resafe, ver,
                   strictOK, permOK, withV, b, nCalls>>

\* p, err := Parse(k.String())
ParseBuilt ==
    /\ pc = "built"
    /\ built.err = "nil"
    /\ reparsed' = Parse(String(built.krn))
    /\ pc' = "reparsed"
    /\ UNCHANGED <<calls, svc, svcOK, arrays, objs, slices, last>>
    /\ UNCHANGED <<text, parsed, rendered, id, valid, safe, resafe, ver,
                   strictOK, permOK, withV, b, built, nCalls>>

NextBuilder ==
    \/ \E service \in ServiceInputs : CallService(service)
    \/ \E collection \in CollectionInputs, resourceID \in ResourceInputs :
         CallResource(collection, resourceID)
    \/ \E version \in BuilderVersionInputs : CallVersion(version)
    \/ CallBuild
    \/ ParseBuilt

SpecBuilder == InitBuilder /\ [][NextBuilder]_vars

\* C2: every value the Builder builds is parsed back, from its String(), to
\* a value that Equals it.
C2_BuilderParseEquivalence ==
    pc = "reparsed"
        => /\ reparsed.err = "nil"
           /\ Equals(built.krn, reparsed.krn)

\* The argument of the call passes the validation the call applies
CallOK(c) ==
    CASE c.op = "Service"  -> IsValidService(c.args[1])
      [] c.op = "Resource" ->
             c.args[1] # <<>> /\ IsValidResourceID(c.args[2])
      [] c.op = "Version"  -> IsValidVersion(c.args[1])

\* The failure a call with an invalid argument reports
CallErr(c) ==
    CASE c.op = "Service"  -> "ErrInvalidDomain"
      [] c.op = "Resource" ->
             IF c.args[1] = <<>> THEN "ErrInvalidKRN"
             ELSE "ErrInvalidResourceID"
      [] c.op = "Version"  -> "ErrInvalidVersion"

\* Position of the first call with an invalid argument, 0 when there is none
FirstBad ==
    LET bad == {i \in 1..Len(calls) : ~CallOK(calls[i])}
    IN  IF bad = {} THEN 0 ELSE Min(bad)

\* The calls made before the first call with an invalid argument
GoodCalls ==
    IF FirstBad = 0 THEN calls ELSE SubSeq(calls, 1, FirstBad - 1)

\* The argument of the last call of cs to op, "" when there is none
LastArg(cs, op) ==
    LET at == {i \in 1..Len(cs) : cs[i].op = op}
    IN  IF at = {} THEN <<>>
        ELSE cs[CHOOSE i \in at : \A j \in at : j <= i].args[1]

\* The pairs of the Resource calls of cs, in call order
RECURSIVE ResourcePairs(_)
ResourcePairs(cs) ==
    IF cs = <<>> THEN <<>>
    ELSE IF Head(cs).op = "Resource"
    THEN <<Segment(Head(cs).args[1], Head(cs).args[2])>>
         \o ResourcePairs(Tail(cs))
    ELSE ResourcePairs(Tail(cs))

\* C16: the first Builder call whose argument fails validation records its
\* failure; every later call leaves the service, the segments, the version
\* and the recorded failure as they were, even when its own argument is
\* invalid in another way; Build() then returns exactly that first failure
\* and no value.
C16_ShortCircuit ==
    FirstBad # 0
        => /\ b.err = CallErr(calls[FirstBad])
           /\ b.service = LastArg(GoodCalls, "Service")
           /\ b.segments = ResourcePairs(GoodCalls)
           /\ b.version = LastArg(GoodCalls, "Version")
           /\ pc = "built"
                => built = Result(NilKRN, CallErr(calls[FirstBad]))

C16_Witness ==
    /\ pc = "built"
    /\ FirstBad # 0
    /\ \E j \in (FirstBad + 1)..Len(calls) :
          /\ ~CallOK(calls[j])
          /\ CallErr(calls[j]) # CallErr(calls[FirstBad])
    /\ \E j \in (FirstBad + 1)..Len(calls) : CallOK(calls[j])
    /\ built.err = CallErr(calls[FirstBad])

\* C17: Build() returns the recorded failure when there is one; otherwise,
\* when no Resource call succeeded, it fails with ErrInvalidKRN and no
\* value; otherwise it returns a value whose segments are exactly the pairs
\* of the successful Resource calls in call order, with the builder's
\* service and version.
C17_Build ==
    pc = "built"
        => IF b.err # "nil" THEN built = Result(NilKRN, b.err)
           ELSE IF ResourcePairs(GoodCalls) = <<>>
           THEN built = Result(NilKRN, "ErrInvalidKRN")
           ELSE /\ built.err = "nil"
                /\ built.krn.segments = ResourcePairs(GoodCalls)
                /\ built.krn.service = b.service
                /\ built.krn.version = b.version

C17_Witness ==
    /\ pc = "built"
    /\ built.err = "nil"
    /\ Len(built.krn.segments) = 2
    /\ built.krn.segments[1] # built.krn.segments[2]
    /\ built.krn.service # <<>>

-----------------------------------------------------------------------------
(* Specification SpecService: the service-name validator *)

ServiceHeads == {<<"a">>, <<"A">>, <<"1">>, <<"-">>}

ServiceFills == {"a", "1", "-", "_", "A", "."}

ServiceFillCounts == {0, 1} \cup (60..63)

ServiceTails == {<<>>, <<"a">>, <<"1">>, <<"-">>, <<"A">>}

ServiceNameInputs ==
    {<<>>} \cup
    { h \o Repeat(c, n) \o t :
        h \in ServiceHeads, c \in ServiceFills, n \in ServiceFillCounts,
        t \in ServiceTails }

InitService ==
    /\ pc = "start"
    /\ svc \in ServiceNameInputs
    /\ svcOK = FALSE
    /\ text = <<>> /\ parsed = NoResult /\ rendered = <<>>
    /\ id = <<>> /\ valid = FALSE /\ safe = <<>> /\ resafe = <<>>
    /\ ver = <<>> /\ strictOK = FALSE /\ permOK = FALSE /\ withV = NoResult
    /\ b = New /\ built = NoResult /\ reparsed = NoResult /\ nCalls = 0
    /\ calls = <<>>
    /\ arrays = <<>> /\ objs = <<>> /\ slices = <<>> /\ last = NoOp

\* ok := IsValidService(svc)
DoValidateService ==
    /\ pc = "start"
    /\ svcOK' = IsValidService(svc)
    /\ pc' = "validated"
    /\ UNCHANGED <<text, parsed, rendered, id, valid, safe, resafe, ver,
                   strictOK, permOK, withV, b, built, reparsed, nCalls,
                   calls, svc, arrays, objs, slices, last>>

NextService == DoValidateService

SpecService == InitService /\ [][NextService]_vars

\* C11: IsValidService(s) is true exactly when s is non-empty, at most 63
\* characters long, begins with a lowercase ASCII letter, holds only
\* lowercase letters, digits and '-', and does not end with '-'.
C11_ServiceGrammar ==
    pc = "validated"
        => (svcOK <=>
              /\ Len(svc) >= 1
              /\ Len(svc) <= 63
              /\ svc[1] \in Lower
              /\ \A i \in 1..Len(svc) : svc[i] \in Lower \cup Digit \cup {"-"}
              /\ svc[Len(svc)] # "-")

C11_Witness ==
    /\ pc = "validated"
    /\ svcOK
    /\ Len(svc) = 63
    /\ \E i \in 1..Len(svc) : svc[i] = "-"

-----------------------------------------------------------------------------
(* Memory: backing arrays, slice headers and KRN objects.  A pointer to a  *)
(* KRN is an index into objs, 0 is nil; a slice header names its backing   *)
(* array by an index into arrays.                                          *)

\* A slice header over the first len elements of backing array arr
Slice(arr, len) == [arr |-> arr, len |-> len]

\* make([]Segment, n)
Make(n) == [i \in 1..n |-> Segment(<<>>, <<>>)]

\* copy(dst, src)
Copy(dst, src) ==
    [i \in 1..Len(dst) |-> IF i <= Len(src) THEN src[i] ELSE dst[i]]

\* The elements a slice shows
Elems(arrs, sl) == SubSeq(arrs[sl.arr], 1, sl.len)

\* The value the object at pointer p holds
Value(p) ==
    KRN(objs[p].service, Elems(arrays, objs[p].segments), objs[p].version)

\* The values of all objects, by pointer
Values == [p \in 1..Len(objs) |-> Value(p)]

Segments_Shared(arrs, k) == [arrays |-> arrs, slice |-> k.segments]

\* func (k *KRN) Segments() []Segment
Segments(arrs, k) ==
    [arrays |-> Append(arrs, Copy(Make(k.segments.len),
                                  Elems(arrs, k.segments))),
     slice  |-> Slice(Len(arrs) + 1, k.segments.len)]

\* Run a chain of Builder calls
RECURSIVE RunCalls(_, _)
RunCalls(bd, cs) ==
    IF cs = <<>> THEN bd
    ELSE LET c == Head(cs)
             nb == CASE c.op = "Service"  -> BuilderService(bd, c.args[1])
                     [] c.op = "Resource" ->
                            BuilderResource(bd, c.args[1], c.args[2])
                     [] c.op = "Version"  -> BuilderVersion(bd, c.args[1])
         IN  RunCalls(nb, Tail(cs))

-----------------------------------------------------------------------------
(* Specification SpecValue: identifier values made by Parse, Build and     *)
(* NewChild, the operations deriving values from them, and a caller        *)
(* writing into the slices Segments() returned                             *)

\* Largest number of allocations: KRN objects and slices from Segments()
MaxAllocs == 3

ValueTexts ==
    { <<"/", "/">> \o Domain \o <<"/", "c", "/", "r">>,
      <<"/", "/", "s", ".">> \o Domain
          \o <<"/", "c", "/", "r", "/", "d", "/", "r", "@", "v", "1">>,
      <<"/", "/">> \o Domain \o <<"/", "c">> }

ValueServices == {<<"t">>, <<"S">>}

ValueCollections == {<<"d">>, <<>>, <<"c", "/", "r", "/", "d">>}

ValueResourceIDs == {<<"r">>, <<"-">>}

ValueVersions == {<<"v", "2">>, <<"v">>}

\* New().Resource(c, r).Build() and
\* New().Service(s).Resource("d", "r").Version(v).Build()
BuildChains ==
    { <<[op |-> "Resource", args |-> <<c, r>>]>> :
        c \in ValueCollections, r \in ValueResourceIDs }
    \cup
    { <<[op |-> "Service", args |-> <<sv>>],
        [op |-> "Resource", args |-> <<<<"d">>, <<"r">>>>],
        [op |-> "Version", args |-> <<v>>]>> :
        sv \in ValueServices, v \in ValueVersions }

\* What a caller writes into a slice it holds
WrittenSegments == {Segment(<<"x">>, <<>>)}

InitValue ==
    /\ pc = "start"
    /\ arrays = <<>> /\ objs = <<>> /\ slices = <<>> /\ last = NoOp
    /\ text = <<>> /\ parsed = NoResult /\ rendered = <<>>
    /\ id = <<>> /\ valid = FALSE /\ safe = <<>> /\ resafe = <<>>
    /\ ver = <<>> /\ strictOK = FALSE /\ permOK = FALSE /\ withV = NoResult
    /\ b = New /\ built = NoResult /\ reparsed = NoResult /\ nCalls = 0
    /\ calls = <<>> /\ svc = <<>> /\ svcOK = FALSE

\* The call op(recv, args) returns r: on success the value r.krn is stored
\* in a new object over a new backing array
\*   newSegments := make([]Segment, n); copy(newSegments, ...); &KRN{...}
Return(op, recv, args, r) ==
    /\ IF r.krn = NilKRN
       THEN UNCHANGED <<arrays, objs>>
       ELSE /\ arrays' = Append(arrays, Copy(Make(Len(r.krn.segments)),
                                             r.krn.segments))
            /\ objs' = Append(objs,
                   [service  |-> r.krn.service,
                    segments |-> Slice(Len(arrays) + 1, Len(r.krn.segments)),
                    version  |-> r.krn.version])
    /\ last' = [op |-> op, recv |-> recv, args |-> args,
                res |-> IF r.krn = NilKRN THEN 0 ELSE Len(objs) + 1,
                err |-> r.err, pre |-> Values]
    /\ UNCHANGED <<pc, text, parsed, rendered, id, valid, safe, resafe, ver,
                   strictOK, permOK, withV, b, built, reparsed, nCalls,
                   calls, svc, svcOK, slices>>

\* k, err := Parse(t)
ValParse(t) ==
    /\ Len(objs) + Len(slices) < MaxAllocs
    /\ Return("Parse", 0, <<t>>, Parse(t))

\* k, err := New()...Build()
ValBuild(cs) ==
    /\ Len(objs) + Len(slices) < MaxAllocs
    /\ Return("Build", 0, cs, BuilderBuild(RunCalls(New, cs)))

\* k, err := NewChild(parent, collection, resourceID)
ValNewChild(p, collection, resourceID) ==
    /\ Len(objs) + Len(slices) < MaxAllocs
    /\ Return("NewChild", p, <<collection, resourceID>>,
           NewChild(IF p = 0 THEN NilKRN ELSE Value(p), collection,
                    resourceID))

\* k := objs[p].Parent()
ValParent(p) ==
    /\ Len(objs) + Len(slices) < MaxAllocs
    /\ Return("Parent", p, <<>>, Result(Parent(Value(p)), "nil"))

\* k, err := objs[p].WithVersion(version)
ValWithVersion(p, version) ==
    /\ Len(objs) + Len(slices) < MaxAllocs
    /\ Return("WithVersion", p, <<version>>, WithVersion(Value(p), version))

\* k := objs[p].WithoutVersion()
ValWithoutVersion(p) ==
    /\ Len(objs) + Len(slices) < MaxAllocs
    /\ Return("WithoutVersion", p, <<>>,
           Result(WithoutVersion(Value(p)), "nil"))

\* k, err := objs[p].WithService(service)
ValWithService(p, service) ==
    /\ Len(objs) + Len(slices) < MaxAllocs
    /\ Return("WithService", p, <<service>>, WithService(Value(p), service))

\* k := objs[p].WithoutService()
ValWithoutService(p) ==
    /\ Len(objs) + Len(slices) < MaxAllocs
    /\ Return("WithoutService", p, <<>>,
           Result(WithoutService(Value(p)), "nil"))

\* segs := objs[p].Segments()
ValSegments(p) ==
    /\ Len(objs) + Len(slices) < MaxAllocs
    /\ LET r == Segments(arrays, objs[p])
       IN  /\ arrays' = r.arrays
           /\ slices' = Append(slices, r.slice)
    /\ last' = [op |-> "Segments", recv |-> p, args |-> <<>>, res |-> 0,
                err |-> "nil", pre |-> Values]
    /\ UNCHANGED <<pc, text, parsed, rendered, id, valid, safe, resafe, ver,
                   strictOK, permOK, withV, b, built, reparsed, nCalls,
                   calls, svc, svcOK, objs>>

\* segs[i] = seg, on a slice the caller holds
ValWrite(n, i, seg) ==
    /\ arrays' = [arrays EXCEPT ![slices[n].arr][i] = seg]
    /\ last' = [op |-> "Write", recv |-> 0, args |-> <<>>, res |-> 0,
                err |-> "nil", pre |-> Values]
    /\ UNCHANGED <<pc, text, parsed, rendered, id, valid, safe, resafe, ver,
                   strictOK, permOK, withV, b, built, reparsed, nCalls,
                   calls, svc, svcOK, objs, slices>>

NextValue ==
    \/ \E t \in ValueTexts : ValParse(t)
    \/ \E cs \in BuildChains : ValBuild(cs)
    \/ \E p \in 0..Len(objs), c \in ValueCollections,
          r \in ValueResourceIDs : ValNewChild(p, c, r)
    \/ \E p \in 1..Len(objs) : ValParent(p)
    \/ \E p \in 1..Len(objs), v \in ValueVersions : ValWithVersion(p, v)
    \/ \E p \in 1..Len(objs) : ValWithoutVersion(p)
    \/ \E p \in 1..Len(objs), sv \in ValueServices : ValWithService(p, sv)
    \/ \E p \in 1..Len(objs) : ValWithoutService(p)
    \/ \E p \in 1..Len(objs) : ValSegments(p)
    \/ \E n \in 1..Len(slices) :
         \E i \in 1..slices[n].len, seg \in WrittenSegments :
            ValWrite(n, i, seg)

SpecValue == InitValue /\ [][NextValue]_vars

-----------------------------------------------------------------------------
(* Claims on SpecValue *)

\* C12: Parent() of a value with at most one segment is nil; of a value of
\* depth n >= 2 it is a value with exactly the first n-1 segments in order,
\* the same service and no version, whatever version the receiver carries.
C12_Parent ==
    last.op = "Parent"
        => LET v == last.pre[last.recv]
               n == Len(v.segments)
           IN  IF n <= 1 THEN last.res = 0
               ELSE /\ last.res # 0
                    /\ Value(last.res).segments = SubSeq(v.segments, 1, n - 1)
                    /\ Value(last.res).service = v.service
                    /\ Value(last.res).version = <<>>

C12_Witness ==
    /\ last.op = "Parent"
    /\ last.res # 0
    /\ last.pre[last.recv].version # <<>>
    /\ last.pre[last.recv].service # <<>>

\* C13: NewChild fails with ErrInvalidKRN when the parent is nil or the
\* collection is empty, and with ErrInvalidResourceID when the resource id
\* is invalid, checked in that order and returning no value; otherwise the
\* result has the parent's segments followed by the new pair, the parent's
\* service and no version, even when the parent has one.
C13_NewChild ==
    last.op = "NewChild"
        => LET collection == last.args[1]
               resourceID == last.args[2]
           IN  IF last.recv = 0 \/ collection = <<>>
               THEN last.res = 0 /\ last.err = "ErrInvalidKRN"
               ELSE IF ~IsValidResourceID(resourceID)
               THEN last.res = 0 /\ last.err = "ErrInvalidResourceID"
               ELSE /\ last.res # 0
                    /\ last.err = "nil"
                    /\ Value(last.res) =
                         KRN(last.pre[last.recv].service,
                             Append(last.pre[last.recv].segments,
                                    Segment(collection, resourceID)),
                             <<>>)

C13_Witness ==
    /\ last.op = "NewChild"
    /\ last.res # 0
    /\ last.pre[last.recv].version # <<>>
    /\ Len(Value(last.res).segments) = Len(last.pre[last.recv].segments) + 1

\* The last call was NewChild(v.Parent(), v.BasenameCollection(),
\* v.Basename()) for the value v of an object that existed before the call
RebuildsChildOf(v) ==
    /\ last.op = "NewChild"
    /\ last.recv # 0
    /\ Depth(v) >= 2
    /\ last.pre[last.recv] = Parent(v)
    /\ last.args = <<BasenameCollection(v), Basename(v)>>

\* C14: for every value v of depth >= 2, NewChild(v.Parent(),
\* v.BasenameCollection(), v.Basename()) succeeds and gives a value with
\* the Path() and the service of v.
C14_ParentChildInverse ==
    \A p \in 1..Len(objs) :
        (p <= Len(last.pre) /\ RebuildsChildOf(last.pre[p]))
            => /\ last.res # 0
               /\ last.err = "nil"
               /\ Path(Value(last.res)) = Path(last.pre[p])
               /\ Service(Value(last.res)) = Service(last.pre[p])

C14_Witness ==
    /\ last.op = "NewChild"
    /\ last.res # 0
    /\ \E p \in 1..Len(last.pre) :
          /\ RebuildsChildOf(last.pre[p])
          /\ last.pre[p].service # <<>>
          /\ last.pre[p].version # <<>>

\* C15: no operation changes an existing value: after Parent, WithVersion,
\* WithoutVersion, WithService, WithoutService, NewChild and Segments calls,
\* and after the caller writes into a slice Segments() returned, every
\* object shows the String(), segments, service and version it showed
\* before.
C15_NoMutation ==
    last.op # "none"
        => \A p \in 1..Len(last.pre) :
              /\ String(Value(p)) = String(last.pre[p])
              /\ Value(p).segments = last.pre[p].segments
              /\ Service(Value(p)) = Service(last.pre[p])
              /\ Version(Value(p)) = Version(last.pre[p])

C15_Witness ==
    /\ last.op = "Write"
    /\ Len(last.pre) >= 1
    /\ \E n \in 1..Len(slices) :
          \E i \in 1..slices[n].len :
             arrays[slices[n].arr][i] \in WrittenSegments

\* A value with at least one segment, each with a non-empty collection and
\* a valid resource id, an empty or valid service, an empty or valid version
ValidValue(v) ==
    /\ Len(v.segments) >= 1
    /\ \A i \in 1..Len(v.segments) :
          /\ v.segments[i].Collection # <<>>
          /\ IsValidResourceID(v.segments[i].ResourceID)
    /\ v.service = <<>> \/ IsValidService(v.service)
    /\ v.version = <<>> \/ IsValidVersion(v.version)

\* C18: every value obtained from Parse, Build or NewChild, and every value
\* derived from one by Parent, WithVersion, WithoutVersion, WithService,
\* WithoutService or NewChild, has at least one segment, segments with a
\* non-empty collection and a valid resource id, a service that is empty
\* or valid, and a version that is empty or valid.
C18_ValidityInvariant ==
    \A p \in 1..Len(objs) : ValidValue(Value(p))

C18_Witness ==
    /\ Len(objs) >= 3
    /\ last.op = "WithService"
    /\ last.res # 0
    /\ \E p \in 1..Len(objs) : Len(Value(p).segments) >= 3

\* C19: WithVersion(v) fails with ErrInvalidVersion and no value when v is
\* not a valid version, and otherwise gives a new value with version v and
\* the receiver's service and segments; WithoutVersion() always gives a
\* value with an empty version and the receiver's service and segments;
\* the receiver is unchanged by both.
C19_WithVersion ==
    /\ last.op = "WithVersion"
         => LET k == last.pre[last.recv]
            IN  /\ Value(last.recv) = k
                /\ IF ~IsValidVersion(last.args[1])
                   THEN last.res = 0 /\ last.err = "ErrInvalidVersion"
                   ELSE /\ last.res # 0
                        /\ last.res # last.recv
                        /\ last.err = "nil"
                        /\ Value(last.res) =
                             KRN(k.service, k.segments, last.args[1])
    /\ last.op = "WithoutVersion"
         => LET k == last.pre[last.recv]
            IN  /\ Value(last.recv) = k
                /\ last.res # 0
                /\ last.res # last.recv
                /\ Value(last.res) = KRN(k.service, k.segments, <<>>)

C19_Witness ==
    /\ last.op = "WithoutVersion"
    /\ last.pre[last.recv].version # <<>>
    /\ last.pre[last.recv].service # <<>>
    /\ last.res # 0

\* C20: WithService(s) and WithoutService() keep the receiver's segments
\* and version in the value they give; WithService fails with
\* ErrInvalidDomain and no value when s is not a valid service name; the
\* receiver's service is unchanged.
C20_WithService ==
    /\ last.op = "WithService"
         => LET k == last.pre[last.recv]
            IN  /\ Service(Value(last.recv)) = k.service
                /\ IF ~IsValidService(last.args[1])
                   THEN last.res = 0 /\ last.err = "ErrInvalidDomain"
                   ELSE /\ last.res # 0
                        /\ last.err = "nil"
                        /\ Value(last.res) =
                             KRN(last.args[1], k.segments, k.version)
    /\ last.op = "WithoutService"
         => LET k == last.pre[last.recv]
            IN  /\ Service(Value(last.recv)) = k.service
                /\ last.res # 0
                /\ Value(last.res) = KRN(<<>>, k.segments, k.version)

C20_Witness ==
    /\ last.op = "WithoutService"
    /\ last.pre[last.recv].version # <<>>
    /\ last.pre[last.recv].service # <<>>
    /\ last.res # 0

-----------------------------------------------------------------------------
(* Claims on SpecParse: the failure reported and the value returned *)

\* The text has a version separator after its prefix
HasAt(t) == "@" \in Chars(Drop(t, 2))

\* The failure of the root-most pair with an empty collection or an invalid
\* resource id: the collection is looked at first; "nil" when no pair fails
PairKind(toks) ==
    LET bad == {i \in 1..(Len(toks) \div 2) : BadPair(toks, i)}
    IN  IF bad = {} THEN "nil"
        ELSE IF toks[2 * Min(bad) - 1] = <<>> THEN "ErrInvalidKRN"
        ELSE "ErrInvalidResourceID"

\* The failure of the earliest violated step, "nil" when none is violated.
\* With domainFirst the domain token is judged before the number of
\* tokens; without it, fewer than two path tokens are reported first.
ExpectedKind(t, domainFirst) ==
    IF t = <<>> THEN "ErrEmptyKRN"
    ELSE IF ~HasPrefix(t, <<"/", "/">>) THEN "ErrInvalidKRN"
    ELSE IF HasAt(t) /\ ~IsValidVersion(VersionOf(t)) THEN "ErrInvalidVersion"
    ELSE IF ~domainFirst /\ Len(PathTokensOf(t)) < 2 THEN "ErrInvalidKRN"
    ELSE IF ~GrammarDomain(DomainTokenOf(t)) THEN "ErrInvalidDomain"
    ELSE IF Len(PathTokensOf(t)) < 2 \/ Len(PathTokensOf(t)) % 2 # 0
    THEN "ErrInvalidKRN"
    ELSE PairKind(PathTokensOf(t))

\* C24 as stated: Parse reports the failure of the earliest violated step
\* in the order empty input, missing prefix, invalid version, invalid
\* domain or service token, odd or too few path tokens, then per pair empty
\* collection before invalid resource id; a wrong domain with too few
\* tokens is reported as ErrInvalidDomain.
C24_EarliestStepDomainFirst ==
    pc # "start" => parsed.err = ExpectedKind(text, TRUE)

\* C24 amended: the order is empty input, missing prefix, invalid version,
\* fewer than two path tokens (ErrInvalidKRN), invalid domain or service
\* token, odd number of path tokens, then per pair empty collection before
\* invalid resource id; a wrong domain with fewer than two path tokens is
\* reported as ErrInvalidKRN.
C24_EarliestStep ==
    pc # "start" => parsed.err = ExpectedKind(text, FALSE)

C24_Witness ==
    /\ pc = "parsed"
    /\ HasPrefix(text, <<"/", "/">>)
    /\ ~HasAt(text)
    /\ ~GrammarDomain(DomainTokenOf(text))
    /\ DomainTokenOf(text) # <<>>
    /\ Len(PathTokensOf(text)) < 2
    /\ parsed.err = "ErrInvalidKRN"

\* C25: on success Parse returns the value the text determines: the version
\* is the text after the last '@' (empty without '@'), the service is the
\* label in front of ".kopexa.com" in the first token (empty when the token
\* is the root domain), the segments are the consecutive pairs of the other
\* tokens in order, so the depth is half their number; on failure Parse
\* returns no value.
C25_ParsedValue ==
    pc # "start"
        => IF parsed.err = "nil"
           THEN LET k == parsed.krn
                    d == DomainTokenOf(text)
                    toks == PathTokensOf(text)
                IN  /\ k.version = IF HasAt(text) THEN VersionOf(text) ELSE <<>>
                    /\ k.service = IF d = Domain THEN <<>>
                                   ELSE SubSeq(d, 1, Len(d) - Len(Domain) - 1)
                    /\ d = (IF k.service = <<>> THEN <<>>
                            ELSE k.service \o <<".">>) \o Domain
                    /\ 2 * Depth(k) = Len(toks)
                    /\ \A i \in 1..Depth(k) :
                          k.segments[i] = Segment(toks[2 * i - 1], toks[2 * i])
           ELSE parsed.krn = NilKRN

C25_Witness ==
    /\ pc = "parsed"
    /\ parsed.err = "nil"
    /\ parsed.krn.service # <<>>
    /\ HasAt(text)
    /\ LastIndex(text, "@") # Index(text, "@")
    /\ Depth(parsed.krn) = 2
    /\ parsed.krn.segments[1] # parsed.krn.segments[2]

-----------------------------------------------------------------------------
(* Specification SpecAccess: the accessors, the comparisons and chains of  *)
(* transformations, applied to one value                                   *)

\* Largest depth of the value under test
MaxDepth == 3

AccessPairs ==
    { Segment(<<"c">>, <<"r">>), Segment(<<"c">>, <<"q">>),
      Segment(<<"d">>, <<"r">>) }

\* Sequences over S of lengths 1..n
RECURSIVE SeqsUpTo(_, _)
SeqsUpTo(S, n) ==
    IF n = 0 THEN {}
    ELSE LET shorter == SeqsUpTo(S, n - 1)
         IN  {<<x>> : x \in S} \cup shorter
             \cup {Append(q, x) : q \in shorter, x \in S}

\* The zero value &KRN{} and the values with at least one segment
AccessValues ==
    {KRN(<<>>, <<>>, <<>>)}
    \cup { KRN(sv, segs, v) :
             sv \in {<<>>, <<"s">>}, segs \in SeqsUpTo(AccessPairs, MaxDepth),
             v \in {<<>>, <<"v", "1">>} }

\* The values a value is compared with
OtherValues == {v \in AccessValues : Depth(v) <= 1}

LookupCollections == {<<"c">>, <<"d">>, <<"x">>}

EqualsTexts ==
    {String(v) : v \in OtherValues} \cup {<<"i", "n", "v", "a", "l", "i", "d">>}

AccessServices == {<<"t">>}

AccessVersions == {<<"v", "2">>}

InitAccess ==
    /\ pc = "start"
    /\ \E v \in AccessValues :
          /\ arrays = <<v.segments>>
          /\ objs = <<[service  |-> v.service,
                       segments |-> Slice(1, Len(v.segments)),
                       version  |-> v.version]>>
    /\ slices = <<>>
    /\ last = NoOp
    /\ text = <<>> /\ parsed = NoResult /\ rendered = <<>>
    /\ id = <<>> /\ valid = FALSE /\ safe = <<>> /\ resafe = <<>>
    /\ ver = <<>> /\ strictOK = FALSE /\ permOK = FALSE /\ withV = NoResult
    /\ b = New /\ built = NoResult /\ reparsed = NoResult /\ nCalls = 0
    /\ calls = <<>> /\ svc = <<>> /\ svcOK = FALSE

\* The call leaves everything but its result as it was
Reads ==
    UNCHANGED <<pc, text, parsed, rendered, id, valid, safe, resafe, ver,
                strictOK, permOK, withV, b, built, reparsed, nCalls,
                calls, svc, svcOK, arrays, objs, slices>>

\* id, err := k.ResourceID(c); has := k.HasResource(c)
AccLookup(c) ==
    /\ last' = [op |-> "Lookup", args |-> <<c>>,
                rid |-> ResourceID(Value(1), c),
                has |-> HasResource(Value(1), c)]
    /\ Reads

\* eq := k.Equals(other)
AccEquals(other) ==
    /\ last' = [op |-> "Equals", other |-> other,
                res |-> Equals(Value(1), other)]
    /\ Reads

\* eq := k.EqualsString(t)
AccEqualsString(t) ==
    /\ last' = [op |-> "EqualsString", args |-> <<t>>,
                res |-> EqualsString(Value(1), t)]
    /\ Reads

\* k.Basename(), k.BasenameCollection(), k.Depth(), k.Path(), k.Parent()
AccShape ==
    /\ last' = [op |-> "Shape",
                basename |-> Basename(Value(1)),
                basenameCollection |-> BasenameCollection(Value(1)),
                depth |-> Depth(Value(1)),
                path |-> Path(Value(1)),
                parent |-> Parent(Value(1))]
    /\ Reads

\* k.String(), k.FullDomain(), k.Path(), k.RelativeResourceName(), ...
AccRender ==
    /\ last' = [op |-> "Render",
                string |-> String(Value(1)),
                fullDomain |-> FullDomain(Value(1)),
                path |-> Path(Value(1)),
                relative |-> RelativeResourceName(Value(1)),
                hasVersion |-> HasVersion(Value(1)),
                version |-> Version(Value(1)),
                hasService |-> HasService(Value(1)),
                service |-> Service(Value(1))]
    /\ Reads

\* k.WithService(sv).WithVersion(v) and k.WithVersion(v).WithService(sv)
AccServiceVersion(sv, v) ==
    /\ last' = [op |-> "ServiceVersion", args |-> <<sv, v>>,
                lhs |-> WithVersion(WithService(Value(1), sv).krn, v).krn,
                rhs |-> WithService(WithVersion(Value(1), v).krn, sv).krn]
    /\ Reads

\* k.WithVersion(v).WithoutVersion() and k.WithoutVersion()
AccCancelVersion(v) ==
    /\ last' = [op |-> "CancelVersion", args |-> <<v>>,
                lhs |-> WithoutVersion(WithVersion(Value(1), v).krn),
                rhs |-> WithoutVersion(Value(1))]
    /\ Reads

\* k.WithService(sv).WithoutService() and k.WithoutService()
AccCancelService(sv) ==
    /\ last' = [op |-> "CancelService", args |-> <<sv>>,
                lhs |-> WithoutService(WithService(Value(1), sv).krn),
                rhs |-> WithoutService(Value(1))]
    /\ Reads

\* k.WithoutVersion().WithoutVersion(), k.WithoutService().WithoutService()
AccTwice ==
    /\ last' = [op |-> "Twice",
                onceV  |-> WithoutVersion(Value(1)),
                twiceV |-> WithoutVersion(WithoutVersion(Value(1))),
                onceS  |-> WithoutService(Value(1)),
                twiceS |-> WithoutService(WithoutService(Value(1)))]
    /\ Reads

\* k.WithService(sv).Parent() and k.Parent().WithService(sv)
AccServiceParent(sv) ==
    /\ Depth(Value(1)) >= 2
    /\ last' = [op |-> "ServiceParent", args |-> <<sv>>,
                lhs |-> Parent(WithService(Value(1), sv).krn),
                rhs |-> WithService(Parent(Value(1)), sv).krn]
    /\ Reads

NextAccess ==
    \/ \E c \in LookupCollections : AccLookup(c)
    \/ \E other \in OtherValues \cup {NilKRN} : AccEquals(other)
    \/ \E t \in EqualsTexts : AccEqualsString(t)
    \/ AccShape
    \/ AccRender
    \/ \E sv \in AccessServices, v \in AccessVersions :
         AccServiceVersion(sv, v)
    \/ \E v \in AccessVersions : AccCancelVersion(v)
    \/ \E sv \in AccessServices : AccCancelService(sv)
    \/ AccTwice
    \/ \E sv \in AccessServices : AccServiceParent(sv)

SpecAccess == InitAccess /\ [][NextAccess]_vars

\* C21: ResourceID(collection) returns the resource id of the first
\* segment, root to leaf, whose collection equals the argument, also when
\* the collection occurs at several levels, and fails with
\* ErrResourceNotFound when no segment matches; HasResource(collection) is
\* true exactly when ResourceID(collection) succeeds.
C21_ResourceLookup ==
    last.op = "Lookup"
        => LET segs == Value(1).segments
               at == {i \in 1..Len(segs) : segs[i].Collection = last.args[1]}
           IN  /\ last.has <=> last.rid.err = "nil"
               /\ IF at = {}
                  THEN last.rid = Found(<<>>, "ErrResourceNotFound")
                  ELSE last.rid = Found(segs[Min(at)].ResourceID, "nil")

C21_Witness ==
    /\ last.op = "Lookup"
    /\ last.rid.err = "nil"
    /\ \E i, j \in 1..Len(Value(1).segments) :
          /\ i < j
          /\ Value(1).segments[i].Collection = last.args[1]
          /\ Value(1).segments[j].Collection = last.args[1]
          /\ Value(1).segments[i].ResourceID # Value(1).segments[j].ResourceID

\* C22: Equals(other) is true exactly when other is not nil and the two
\* values have the same String(); Equals(nil) is false; EqualsString(text)
\* is false when Parse(text) fails and is Equals(Parse(text)) otherwise.
C22_Equals ==
    /\ last.op = "Equals"
         => (last.res <=> /\ last.other # NilKRN
                          /\ String(Value(1)) = String(last.other))
    /\ last.op = "EqualsString"
         => (last.res <=> /\ Parse(last.args[1]).err = "nil"
                          /\ String(Value(1))
                               = String(Parse(last.args[1]).krn))

C22_Witness ==
    /\ last.op = "EqualsString"
    /\ last.res
    /\ Value(1).version # <<>>
    /\ Value(1).service # <<>>

\* C23: on the zero value (no segment, no service, no version) Basename()
\* and BasenameCollection() return "", Depth() returns 0, Path() returns
\* "", HasResource(c) is false for every c, and Parent() is nil.
C23_ZeroValue ==
    Value(1) = KRN(<<>>, <<>>, <<>>)
        => /\ last.op = "Shape"
                => /\ last.basename = <<>>
                   /\ last.basenameCollection = <<>>
                   /\ last.depth = 0
                   /\ last.path = <<>>
                   /\ last.parent = NilKRN
           /\ last.op = "Lookup" => ~last.has

C23_Witness ==
    /\ Value(1) = KRN(<<>>, <<>>, <<>>)
    /\ last.op = "Shape"
    /\ last.parent = NilKRN

\* C27: for a valid service s and a valid version v,
\* WithService(s).WithVersion(v) equals WithVersion(v).WithService(s);
\* WithVersion(v).WithoutVersion() equals WithoutVersion();
\* WithService(s).WithoutService() equals WithoutService(); WithoutVersion
\* and WithoutService are idempotent; and for depth >= 2
\* WithService(s).Parent() equals Parent().WithService(s), all as equality
\* of service, segments and version.
C27_CommuteAndCancel ==
    /\ last.op \in {"ServiceVersion", "CancelVersion", "CancelService",
                    "ServiceParent"}
         => /\ last.lhs # NilKRN
            /\ last.lhs = last.rhs
    /\ last.op = "Twice"
         => /\ last.twiceV = last.onceV
            /\ last.twiceS = last.onceS

C27_Witness ==
    /\ last.op = "ServiceVersion"
    /\ Value(1).service # <<>>
    /\ Value(1).version # <<>>
    /\ last.lhs.service = last.args[1]
    /\ last.lhs.version = last.args[2]

\* C29: for a value with at least one segment String() is "//" +
\* FullDomain() + "/" + Path(), followed by "@" + Version() exactly when
\* HasVersion(); FullDomain() is the root domain when HasService() is false
\* and Service() + "." + the root domain otherwise; RelativeResourceName()
\* always equals Path().
C29_Rendering ==
    last.op = "Render"
        => /\ Depth(Value(1)) >= 1
                => last.string =
                     <<"/", "/">> \o last.fullDomain \o <<"/">> \o last.path
                     \o (IF last.hasVersion THEN <<"@">> \o last.version
                         ELSE <<>>)
           /\ last.fullDomain =
                IF last.hasService THEN last.service \o <<".">> \o Domain
                ELSE Domain
           /\ last.relative = last.path

C29_Witness ==
    /\ last.op = "Render"
    /\ Depth(Value(1)) >= 2
    /\ last.hasVersion
    /\ last.hasService

-----------------------------------------------------------------------------
(* Claims on SpecBuilder: the order of the calls *)

\* The calls in the documented order: Service, then Resource, then Version
Ordered(cs) ==
    SelectSeq(cs, LAMBDA c : c.op = "Service")
    \o SelectSeq(cs, LAMBDA c : c.op = "Resource")
    \o SelectSeq(cs, LAMBDA c : c.op = "Version")

\* C30: the Builder does not enforce the order Service, Resource*, Version,
\* Build: after any interleaving of valid calls Build() returns what the
\* ordered chain returns, the segments in the order of the Resource calls,
\* the service of the last Service call and the version of the last
\* Version call; Build() does not change the builder, and called twice in
\* a row it returns equal values.
C30_OrderFree ==
    pc = "built"
        => /\ b = last.pre
           /\ last.again => built = last.prev
           /\ (FirstBad = 0 /\ ResourcePairs(calls) # <<>>)
                => /\ built = Result(KRN(LastArg(calls, "Service"),
                                         ResourcePairs(calls),
                                         LastArg(calls, "Version")), "nil")
                   /\ built = BuilderBuild(RunCalls(New, Ordered(calls)))

C30_Witness ==
    /\ pc = "built"
    /\ last.again
    /\ built.err = "nil"
    /\ Len(calls) = 3
    /\ calls[1].op = "Version"
    /\ calls[2].op = "Resource"
    /\ calls[3].op = "Service"

-----------------------------------------------------------------------------
(* Claims on SpecValue: equality *)

\* C28: two values made by Parse, Build or NewChild, or derived from such
\* values, are Equals only if they agree field by field: the same service,
\* the same version, the same depth and the same sequence of (collection,
\* resource id) segments.
C28_EqualsIsFieldwise ==
    \A p, q \in 1..Len(objs) :
        Equals(Value(p), Value(q))
            => /\ Service(Value(p)) = Service(Value(q))
               /\ Version(Value(p)) = Version(Value(q))
               /\ Depth(Value(p)) = Depth(Value(q))
               /\ Value(p).segments = Value(q).segments

-----------------------------------------------------------------------------
(* Specification SpecOwnership: a Builder whose segments are a slice over  *)
(* a backing array, and the values Build() makes from it.  Build() hands   *)
(* the builder's slice header to the value; Resource() appends to it.      *)

\* Largest number of calls on the builder, Build() included
MaxOwnCalls == 6

OwnResourceIDs == {<<"r">>, <<"q">>, <<"-">>}

AppendSlice_Overwrite(arrs, sl, x, newcap) ==
    IF sl.len >= 1
    THEN [arrays |-> [arrs EXCEPT ![sl.arr][sl.len] = x], slice |-> sl]
    ELSE [arrays |-> Append(arrs, <<x>>), slice |-> Slice(Len(arrs) + 1, 1)]

\* append(sl, x): written in place when the capacity allows, otherwise
\* into a new backing array of capacity newcap
AppendSlice(arrs, sl, x, newcap) ==
    IF sl.len < Len(arrs[sl.arr])
    THEN [arrays |-> [arrs EXCEPT ![sl.arr][sl.len + 1] = x],
          slice  |-> Slice(sl.arr, sl.len + 1)]
    ELSE [arrays |-> Append(arrs,
                        [Copy(Make(newcap), Elems(arrs, sl))
                            EXCEPT ![sl.len + 1] = x]),
          slice  |-> Slice(Len(arrs) + 1, sl.len + 1)]

\* The capacities append may give a slice that has to grow
GrowthCaps(arrs, sl) ==
    {n \in {sl.len + 1, 2 * Len(arrs[sl.arr])} : n > sl.len}

\* The builder with its segments read through its slice
BuilderView == [b EXCEPT !.segments = Elems(arrays, b.segments)]

\* b := New()
InitOwnership ==
    /\ pc = "start"
    /\ arrays = <<Make(0)>>
    /\ b = Builder(<<>>, Slice(1, 0), <<>>, "nil")
    /\ objs = <<>> /\ slices = <<>> /\ last = NoOp
    /\ built = NoResult /\ reparsed = NoResult /\ nCalls = 0 /\ calls = <<>>
    /\ text = <<>> /\ parsed = NoResult /\ rendered = <<>>
    /\ id = <<>> /\ valid = FALSE /\ safe = <<>> /\ resafe = <<>>
    /\ ver = <<>> /\ strictOK = FALSE /\ permOK = FALSE /\ withV = NoResult
    /\ svc = <<>> /\ svcOK = FALSE

\* What every call on the builder does besides its own effect
Called(op) ==
    /\ nCalls < MaxOwnCalls
    /\ nCalls' = nCalls + 1
    /\ last' = [op |-> op, pre |-> Values]
    /\ UNCHANGED <<pc, text, parsed, rendered, id, valid, safe, resafe, ver,
                   strictOK, permOK, withV, reparsed, calls, svc, svcOK,
                   slices>>

\* b.Service(service)
OwnService(service) ==
    /\ b' = BuilderService(b, service)
    /\ UNCHANGED <<arrays, objs, built>>
    /\ Called("Service")

\* b.Version(version)
OwnVersion(version) ==
    /\ b' = BuilderVersion(b, version)
    /\ UNCHANGED <<arrays, objs, built>>
    /\ Called("Version")

\* b.Resource(collection, resourceID)
OwnResource(collection, resourceID, newcap) ==
    /\ LET nb == BuilderResource(BuilderView, collection, resourceID)
           a  == AppendSlice(arrays, b.segments,
                             Segment(collection, resourceID), newcap)
       IN  IF Len(nb.segments) = b.segments.len
           THEN /\ b' = [b EXCEPT !.err = nb.err]
                /\ UNCHANGED arrays
           ELSE /\ b' = [b EXCEPT !.segments = a.slice]
                /\ arrays' = a.arrays
    /\ UNCHANGED <<objs, built>>
    /\ Called("Resource")

\* k, err := b.Build()
OwnBuild ==
    /\ built' = BuilderBuild(BuilderView)
    /\ IF built'.err = "nil"
       THEN objs' = Append(objs, [service  |-> b.service,
                                  segments |-> b.segments,
                                  version  |-> b.version])
       ELSE UNCHANGED objs
    /\ UNCHANGED <<arrays, b>>
    /\ Called("Build")

NextOwnership ==
    \/ \E service \in AccessServices : OwnService(service)
    \/ \E version \in AccessVersions : OwnVersion(version)
    \/ \E resourceID \in OwnResourceIDs :
         \E newcap \in GrowthCaps(arrays, b.segments) :
            OwnResource(<<"c">>, resourceID, newcap)
    \/ OwnBuild

SpecOwnership == InitOwnership /\ [][NextOwnership]_vars

\* C26: a value returned by Build() is not changed by later use of the
\* builder: every further Service, Resource, Version and Build call leaves
\* its segments, depth, service, version and String() as they were,
\* although the value holds the builder's own slice; and two values built
\* from the builder at different times do not affect each other.
C26_BuiltValueOwnership ==
    last.op # "none"
        => \A p \in 1..Len(last.pre) :
              /\ Value(p).segments = last.pre[p].segments
              /\ Depth(Value(p)) = Depth(last.pre[p])
              /\ Service(Value(p)) = Service(last.pre[p])
              /\ Version(Value(p)) = Version(last.pre[p])
              /\ String(Value(p)) = String(last.pre[p])

\* A Resource call has appended in place to the backing array an earlier
\* value holds, and a later value shares that array
C26_Witness ==
    /\ Len(objs) >= 2
    /\ objs[1].segments.arr = objs[2].segments.arr
    /\ objs[1].segments.len < objs[2].segments.len
    /\ Value(1) # Value(2)
    /\ last.op = "Build"

=============================================================================
